---- MODULE Spec2Model ----
(***************************************************************************)
(* Segmentation.apply of pyannote/audio/pipelines/segmentation_graph.py:   *)
(* stitching of per-chunk speaker activations into file-wide tracks.       *)
(*                                                                         *)
(* Time is counted in frames and the sliding window moves by one frame     *)
(* per chunk, so chunk c starts at frame c.  Activations are integers      *)
(* (levels), thresholds are in the same units, costs in squared units.     *)
(***************************************************************************)
EXTENDS Integers, Sequences, FiniteSets, TLC

VARIABLES
    activations,            \* activations[c][s][i]: chunk c, slot s, frame i of the chunk
    activity_threshold,     \* self.activity_threshold
    consistency_threshold,  \* self.consistency_threshold
    tie_rule,               \* which of several optimal assignments permutate returns
    todo,                   \* (past_chunk, current_chunk) pairs the loop has not reached
    consistency_graph,      \* nx.Graph: nodes in insertion order, edges as 2-sets
    pending,                \* bipartite components the reduction loop has not reached
    bipartite_component,    \* the bipartite component of the current iteration
    sub_bipartite,          \* its subgraph, pruned and merged
    components,             \* (chunk, speaker) components of the current bipartite component
    sub_aggregated,         \* per-track activation sums of the current component
    sub_overlapped,         \* per-track overlap counts of the current component
    aggregated,             \* list of the arrays appended so far
    overlapped,
    bipartite,              \* make_clique_bipartite(consistency_graph)
    tracks,                 \* every track found so far, in discovery order
    output,                 \* aggregated / overlapped
    pc

vars == <<activations, activity_threshold, consistency_threshold, tie_rule, todo,
          consistency_graph, bipartite, pending, bipartite_component,
          sub_bipartite, components, sub_aggregated,
          sub_overlapped, aggregated, overlapped, tracks, output, pc>>

\* ------------------------------------------------------------------ bounds

MaxChunks == 5

\* ----------------------------------------------------------------- helpers

Range(f) == {f[x] : x \in DOMAIN f}

SumSeq(seq) ==
    LET acc[i \in 0..Len(seq)] == IF i = 0 THEN 0 ELSE acc[i - 1] + seq[i]
    IN  acc[Len(seq)]

\* the function f as an array: every value computed once
Table(f) == f @@ <<>>

\* ------------------------------------------------------------- the input

\* speaker slots of the segmentation model
Slots == {0, 1}

NumSlots == Cardinality(Slots)

NumChunks(acts) == Cardinality(DOMAIN acts)

Chunks(acts) == DOMAIN acts

\* frames per chunk
Duration(acts) == Cardinality(DOMAIN acts[0][0])

\* num_overlapping_chunks = floor(0.5 * duration / step), step = one frame
NumOverlappingChunks(acts) == Duration(acts) \div 2

\* frames.closest_frame(chunk_activations.extent.start)
StartFrame(c) == c

Max2(a, b) == IF a >= b THEN a ELSE b

Min2(a, b) == IF a <= b THEN a ELSE b

\* past_activation.extent & current_activation.extent: first and last frame
Intersection(acts, p, c) ==
    [first |-> Max2(StartFrame(p), StartFrame(c)),
     last |-> Min2(StartFrame(p), StartFrame(c)) + Duration(acts) - 1]

\* activation.crop(intersection).data[:, speaker], as a sequence over the frames
Crop(acts, c, s, segment) ==
    [i \in 1..(segment.last - segment.first + 1) |->
        acts[c][s][(segment.first + i - 1) - StartFrame(c)]]

\* ------------------------------------------------------------ permutate

\* one-to-one mappings past speaker -> current speaker
Perms == {sigma \in [Slots -> Slots] : \A a, b \in Slots : sigma[a] = sigma[b] => a = b}

\* cost[past_speaker, current_speaker]: squared distance of the two cropped columns
CostMatrix(acts, p, c) ==
    LET segment == Intersection(acts, p, c)
    IN  Table([s \in Slots |-> Table([t \in Slots |->
            LET a == Crop(acts, p, s, segment)
                b == Crop(acts, c, t, segment)
            IN  SumSeq([i \in 1..Len(a) |-> (a[i] - b[i]) * (a[i] - b[i])])])])

\* sum of cost[s, sigma(s)] over the matched pairs (lines 172-177)
AssignmentCost(cost, sigma) ==
    LET acc[s \in (-1)..(NumSlots - 1)] ==
            IF s = -1 THEN 0 ELSE acc[s - 1] + cost[s][sigma[s]]
    IN  acc[NumSlots - 1]

LexLess(sigma, tau) ==
    \E s \in Slots : sigma[s] < tau[s] /\ \A r \in Slots : r < s => sigma[r] = tau[r]

\* the solver is deterministic: of several assignments of least cost it
\* returns the first in lexicographic order, or the last
TieRules == {"first", "last"}

\* the assignment of least total cost, and the cost matrix
Permutate(acts, p, c) ==
    LET cost == CostMatrix(acts, p, c)
        best == {sigma \in Perms :
                    \A tau \in Perms : AssignmentCost(cost, sigma) <= AssignmentCost(cost, tau)}
    IN  [permutation |->
            IF tie_rule = "first"
            THEN CHOOSE sigma \in best : \A tau \in best : tau = sigma \/ LexLess(sigma, tau)
            ELSE CHOOSE sigma \in best : \A tau \in best : tau = sigma \/ LexLess(tau, sigma),
         cost |-> cost]

\* np.sum of cost[past_speaker, current_speaker] over enumerate(permutation)
PermutationCost(matching) == AssignmentCost(matching.cost, matching.permutation)

\* --------------------------------------------------- consistency graph

EmptyGraph == [nodes |-> <<>>, edges |-> {}]

NodeSet(g) == Range(g.nodes)

AddNode(g, n) == IF n \in NodeSet(g) THEN g ELSE [g EXCEPT !.nodes = Append(@, n)]

AddEdge(g, u, v) == [AddNode(AddNode(g, u), v) EXCEPT !.edges = @ \cup {{u, v}}]

\* np.max(data[:, speaker]) > self.activity_threshold
IsActive(acts, c, s, segment) ==
    \E i \in segment.first..segment.last :
        /\ acts[c][s][i - StartFrame(c)] > activity_threshold
        /\ \A j \in segment.first..segment.last :
               acts[c][s][j - StartFrame(c)] <= acts[c][s][i - StartFrame(c)]

\* line 201 with <= in place of <
IsConsistentOrEqual(permutation_cost) == permutation_cost <= consistency_threshold

\* permutation_cost < self.consistency_threshold
IsConsistent(permutation_cost) == permutation_cost < consistency_threshold

\* lines 160-162 with a window one chunk longer
PastChunksAndOneMore(acts, c) ==
    {p \in Chunks(acts) : p < c /\ p >= c - NumOverlappingChunks(acts) - 1}

\* range(max(0, current_chunk - num_overlapping_chunks), current_chunk)
PastChunks(acts, c) ==
    {p \in Chunks(acts) : p < c /\ p >= c - NumOverlappingChunks(acts)}

\* every (past_chunk, current_chunk) the two nested loops visit
AllPairs(acts) == UNION {{<<p, c>> : p \in PastChunks(acts, c)} : c \in Chunks(acts)}

\* lines 179-205 with the edge added only to a past node the graph already has
MatchKnownSpeaker(g, acts, p, c, matching, past_speaker) ==
    LET segment == Intersection(acts, p, c)
        current_speaker == matching.permutation[past_speaker]
        past_active == IsActive(acts, p, past_speaker, segment)
        current_active == IsActive(acts, c, current_speaker, segment)
        g1 == IF past_active THEN AddNode(g, <<p, past_speaker>>) ELSE g
        g2 == IF current_active THEN AddNode(g1, <<c, current_speaker>>) ELSE g1
    IN  IF /\ past_active
           /\ current_active
           /\ PermutationCost(matching) < consistency_threshold
           /\ <<p, past_speaker>> \in NodeSet(g)
        THEN AddEdge(g2, <<p, past_speaker>>, <<c, current_speaker>>)
        ELSE g2

\* body of the loop over enumerate(permutation), for one past speaker
MatchSpeaker(g, acts, p, c, matching, past_speaker) ==
    LET segment == Intersection(acts, p, c)
        current_speaker == matching.permutation[past_speaker]
        past_active == IsActive(acts, p, past_speaker, segment)
        current_active == IsActive(acts, c, current_speaker, segment)
        g1 == IF past_active THEN AddNode(g, <<p, past_speaker>>) ELSE g
        g2 == IF current_active THEN AddNode(g1, <<c, current_speaker>>) ELSE g1
    IN  IF past_active /\ current_active /\ IsConsistent(PermutationCost(matching))
        THEN AddEdge(g2, <<p, past_speaker>>, <<c, current_speaker>>)
        ELSE g2

\* one (past_chunk, current_chunk) iteration: lines 163-205
AddPair(g, acts, p, c) ==
    LET matching == Permutate(acts, p, c)
        acc[s \in (-1)..(NumSlots - 1)] ==
            IF s = -1 THEN g ELSE MatchSpeaker(acc[s - 1], acts, p, c, matching, s)
    IN  acc[NumSlots - 1]

\* the pair the two nested loops reach first
FirstPair(pairs) ==
    CHOOSE pr \in pairs : \A q \in pairs :
        pr[2] < q[2] \/ (pr[2] = q[2] /\ pr[1] <= q[1])

RECURSIVE BuildFrom(_, _, _)
BuildFrom(g, acts, pairs) ==
    IF pairs = {} THEN g
    ELSE LET pr == FirstPair(pairs)
         IN  BuildFrom(AddPair(g, acts, pr[1], pr[2]), acts, pairs \ {pr})

\* the whole loop of lines 156-205
BuildGraph(acts) == BuildFrom(EmptyGraph, acts, AllPairs(acts))

\* ------------------------------------------------ bipartite clique graph

Adjacent(g, u, v) == {u, v} \in g.edges

IsClique(g, K) == \A u, v \in K : u = v \/ Adjacent(g, u, v)

GraphNeighbors(g, n) == {m \in NodeSet(g) : Adjacent(g, n, m)}

\* nx.find_cliques: the maximal cliques (an isolated node is a clique of one).
\* A clique that holds n lies within n and its neighbours.
MaximalCliques(g) ==
    UNION {{K \in {{n} \cup M : M \in SUBSET GraphNeighbors(g, n)} :
                IsClique(g, K) /\ \A m \in NodeSet(g) \ K : ~IsClique(g, K \cup {m})}
           : n \in NodeSet(g)}

\* nodes of the bipartite graph: a "bottom" node per speaker node of the
\* consistency graph, a "top" node per maximal clique
SpeakerNode(n) == <<"speaker", {n}>>

CliqueNode(K) == <<"clique", K>>

\* nx.get_node_attributes(bipartite, "bipartite")
is_speaker(node) == node[1] = "speaker"

SpeakerOf(node) == CHOOSE n \in node[2] : TRUE

\* nx.algorithms.clique.make_clique_bipartite: speaker nodes first, in the order
\* of the consistency graph, then one node per clique joined to its members
MakeCliqueBipartite(g) ==
    LET cliques == MaximalCliques(g)
    IN  [order |-> [i \in 1..Len(g.nodes) |-> SpeakerNode(g.nodes[i])],
         nodes |-> {SpeakerNode(n) : n \in NodeSet(g)} \cup {CliqueNode(K) : K \in cliques},
         edges |-> UNION {{{SpeakerNode(n), CliqueNode(K)} : n \in K} : K \in cliques}]

Neighbors(edges, node) == UNION {e \ {node} : e \in {d \in edges : node \in d}}

RECURSIVE Reach(_, _)
Reach(seen, edges) ==
    LET next == seen \cup UNION {e \in edges : e \cap seen # {}}
    IN  IF next = seen THEN seen ELSE Reach(next, edges)

\* nx.connected_components: one component per node not seen yet, in node order.
\* Every component holds a speaker node, and speaker nodes come first.
RECURSIVE ComponentsFrom(_, _, _, _)
ComponentsFrom(order, nodes, edges, seen) ==
    IF order = <<>> THEN <<>>
    ELSE IF Head(order) \in seen \/ Head(order) \notin nodes
         THEN ComponentsFrom(Tail(order), nodes, edges, seen)
         ELSE LET comp == Reach({Head(order)}, edges)
              IN  <<comp>> \o ComponentsFrom(Tail(order), nodes, edges, seen \cup comp)

ConnectedComponents(order, nodes, edges) == ComponentsFrom(order, nodes, edges, {})

\* line 223 with <= in place of <
IsIncompleteOrComplete(degree, L) == degree <= L + 1

\* line 223 with num_overlapping_chunks in place of num_overlapping_chunks + 1
IsShort(degree, L) == degree < L

\* len(sub_bipartite[clique]) < num_overlapping_chunks + 1
IsIncomplete(degree, L) == degree < L + 1

\* len(sub_bipartite[clique]) == num_overlapping_chunks + 1
IsComplete(degree, L) == degree = L + 1

\* len(chunk_speaker_in_both_cliques) == num_overlapping_chunks
SharesWindow(count, L) == count = L

\* sub_bipartite after lines 216-250
PruneAndMerge(acts, bip, component) ==
    LET L == NumOverlappingChunks(acts)
        edges0 == {e \in bip.edges : e \subseteq component}
        incomplete_cliques ==
            {k \in component :
                ~is_speaker(k) /\ IsIncomplete(Cardinality(Neighbors(edges0, k)), L)}
        nodes1 == component \ incomplete_cliques
        edges1 == {e \in edges0 : e \cap incomplete_cliques = {}}
        orphans == {n \in nodes1 : Neighbors(edges1, n) = {}}
        nodes2 == nodes1 \ orphans
        complete_cliques ==
            {k \in nodes2 : ~is_speaker(k) /\ IsComplete(Cardinality(Neighbors(edges1, k)), L)}
        linked ==
            {e \in {{k1, k2} : k1 \in complete_cliques, k2 \in complete_cliques} :
                /\ Cardinality(e) = 2
                /\ \E k1, k2 \in e :
                     /\ k1 # k2
                     /\ SharesWindow(
                            Cardinality(Neighbors(edges1, k1) \cap Neighbors(edges1, k2)), L)}
    IN  [nodes |-> nodes2, edges |-> edges1 \cup linked]

\* components: the (chunk, speaker) nodes of each connected component of
\* sub_bipartite (lines 253-256)
SpeakerComponents(order, sub) ==
    LET comps == ConnectedComponents(order, sub.nodes, sub.edges)
    IN  [k \in 1..Len(comps) |-> {SpeakerOf(n) : n \in {m \in comps[k] : is_speaker(m)}}]

\* ---------------------------------------------------------- aggregation

\* frames.samples(self.audio_.get_duration(file), mode="center"): the frames
\* up to the end of the last chunk
NumFramesInFile(acts) == StartFrame(NumChunks(acts) - 1) + Duration(acts)

\* the "+ 100" of np.zeros((num_frames_in_file + 100, num_components))
FramePadding == 100

\* row indices of sub_aggregated and sub_overlapped
Rows(acts) == 0..(NumFramesInFile(acts) + FramePadding - 1)

\* The rows a chunk can be added to.  No chunk reaches a later row, so the
\* later rows keep the 0.0 of np.zeros: a column is stored on the written
\* rows and read as 0 on the others.
WrittenRows(acts) == 0..(NumFramesInFile(acts) - 1)

At(column, f) == IF f \in DOMAIN column THEN column[f] ELSE 0

\* the frames chunk c is added to: start_frame .. end_frame - 1
Covers(acts, c, f) == StartFrame(c) <= f /\ f < StartFrame(c) + Duration(acts)

\* sorted(component)
SortedNodes(component) ==
    [i \in 1..Cardinality(component) |->
        CHOOSE n \in component :
            Cardinality({m \in component :
                m[1] < n[1] \/ (m[1] = n[1] /\ m[2] < n[2])}) = i - 1]

\* sub_aggregated and sub_overlapped after the loop of lines 268-278
Accumulate(acts, comps) ==
    [aggregated |->
        [k \in 1..Len(comps) |->
            LET nodes == SortedNodes(comps[k])
            IN  [f \in WrittenRows(acts) |->
                    SumSeq([i \in 1..Len(nodes) |->
                        IF Covers(acts, nodes[i][1], f)
                        THEN acts[nodes[i][1]][nodes[i][2]][f - StartFrame(nodes[i][1])]
                        ELSE 0])]],
     overlapped |->
        [k \in 1..Len(comps) |-> [f \in WrittenRows(acts) |->
            Cardinality({n \in comps[k] : Covers(acts, n[1], f)})]]]

\* line 280 with argmin in place of argmax
LeastCentral(ovl, f) ==
    CHOOSE k \in 1..Len(ovl) :
        /\ \A j \in 1..Len(ovl) : ovl[j][f] >= ovl[k][f]
        /\ \A j \in 1..(k - 1) : ovl[j][f] > ovl[k][f]

\* np.argmax(sub_overlapped, axis=1) at frame f: the first column of greatest count
MostCentral(ovl, f) ==
    CHOOSE k \in 1..Len(ovl) :
        /\ \A j \in 1..Len(ovl) : ovl[j][f] <= ovl[k][f]
        /\ \A j \in 1..(k - 1) : ovl[j][f] < ovl[k][f]

\* matrix[most_central != k, k] = 0.0 for every k (lines 280-283)
KeepMostCentral(matrix, ovl) ==
    [k \in 1..Len(matrix) |-> [f \in DOMAIN matrix[k] |->
        IF MostCentral(ovl, f) # k THEN 0 ELSE matrix[k][f]]]

\* np.sum(column)
ColumnSum(column) ==
    LET n == Cardinality(DOMAIN column)
    IN  SumSeq([i \in 1..n |-> column[i - 1]])

\* active = np.sum(sub_aggregated, axis=0) > 0
ActiveColumns(agg) == {k \in 1..Len(agg) : ColumnSum(agg[k]) > 0}

\* matrix[:, active]
SelectColumns(matrix, active) ==
    [i \in 1..Cardinality(active) |->
        matrix[CHOOSE k \in active : Cardinality({j \in active : j < k}) = i - 1]]

\* np.hstack(list of arrays), each array a sequence of columns
RECURSIVE HStack(_)
HStack(arrays) == IF arrays = <<>> THEN <<>> ELSE Head(arrays) \o HStack(Tail(arrays))

RECURSIVE GCD(_, _)
GCD(a, b) == IF b = 0 THEN a ELSE GCD(b, a % b)

NaN == [kind |-> "nan", num |-> 0, den |-> 0]

\* one cell of aggregated / overlapped: a fraction in lowest terms, or what
\* the floating-point division gives for a zero count
Divide(sum, count) ==
    IF count # 0
    THEN [kind |-> "number", num |-> sum \div GCD(sum, count), den |-> count \div GCD(sum, count)]
    ELSE IF sum = 0 THEN NaN
    ELSE [kind |-> "inf", num |-> 1, den |-> 0]

\* aggregated / overlapped on the written rows
Quotient(agg, ovl) ==
    [k \in 1..Len(agg) |-> [f \in DOMAIN agg[k] |-> Divide(agg[k][f], ovl[k][f])]]

\* a cell of aggregated / overlapped, on any row
OutputAt(column, f) == IF f \in DOMAIN column THEN column[f] ELSE Divide(0, 0)

\* ---------------------------------------------------- the whole of apply

\* the arrays lines 214-291 append, for the bipartite components in order
RECURSIVE ReduceAll(_, _, _)
ReduceAll(acts, bip, comps) ==
    IF comps = <<>> THEN <<>>
    ELSE LET tr == SpeakerComponents(bip.order, PruneAndMerge(acts, bip, Head(comps)))
             acc == Accumulate(acts, tr)
             agg == KeepMostCentral(acc.aggregated, acc.overlapped)
             ovl == KeepMostCentral(acc.overlapped, acc.overlapped)
             active == ActiveColumns(agg)
             rest == ReduceAll(acts, bip, Tail(comps))
         IN  IF Len(tr) = 0 THEN rest
             ELSE <<[aggregated |-> SelectColumns(agg, active),
                     overlapped |-> SelectColumns(ovl, active)]>> \o rest

\* what apply computes for a file: lines 156-296
Apply(acts) ==
    LET g == BuildGraph(acts)
        bip == MakeCliqueBipartite(g)
        arrays == ReduceAll(acts, bip, ConnectedComponents(bip.order, bip.nodes, bip.edges))
    IN  IF arrays = <<>>
        THEN [status |-> "error", activations |-> <<>>]
        ELSE [status |-> "done",
              activations |->
                  Quotient(HStack([i \in 1..Len(arrays) |-> arrays[i].aggregated]),
                           HStack([i \in 1..Len(arrays) |-> arrays[i].overlapped]))]

\* ------------------------------------------------------------- the file

\* chunk durations, in frames
Durations == {2, 4}

Silent(F) == [i \in 0..(F - 1) |-> 0]

Full(F) == [i \in 0..(F - 1) |-> 1]

Early(F) == [i \in 0..(F - 1) |-> IF i < F \div 2 THEN 1 ELSE 0]

Late(F) == [i \in 0..(F - 1) |-> IF i < F \div 2 THEN 0 ELSE 1]

ChunkPattern(a, b) == [s \in Slots |-> IF s = 0 THEN a ELSE b]

\* what the segmentation model may return for one chunk
ChunkPatterns(F) ==
    IF F = 2
    THEN {ChunkPattern(Silent(F), Full(F)), ChunkPattern(Early(F), Late(F)),
          ChunkPattern(Late(F), Early(F))}
    ELSE {ChunkPattern(Silent(F), Full(F)), ChunkPattern(Late(F), Early(F)),
          ChunkPattern(Silent(F), Early(F))}

Files ==
    UNION {[0..(n - 1) -> ChunkPatterns(F)] : n \in 1..MaxChunks, F \in Durations}

\* some pair of the lookback window has several assignments of least cost
HasTie(acts) ==
    \E pr \in AllPairs(acts) :
        LET cost == CostMatrix(acts, pr[1], pr[2])
        IN  \E sigma \in Perms, tau \in Perms :
                /\ sigma # tau
                /\ \A rho \in Perms :
                       /\ AssignmentCost(cost, sigma) <= AssignmentCost(cost, rho)
                       /\ AssignmentCost(cost, tau) <= AssignmentCost(cost, rho)

\* the tie rules that differ on the file: without a tie they are one rule
TieRulesOf(acts) == IF HasTie(acts) THEN TieRules ELSE {"first"}

ActivityThresholds == {0}

\* thresholds within the range of the costs of a pair of chunks of the file
ConsistencyThresholds(acts) == {Duration(acts) - 1, Duration(acts)}

\* ------------------------------------------------------------ the steps

NoGraph == [order |-> <<>>, nodes |-> {}, edges |-> {}]

Start ==
    /\ todo = AllPairs(activations)
    /\ consistency_graph = EmptyGraph
    /\ bipartite = NoGraph
    /\ pending = <<>>
    /\ bipartite_component = {}
    /\ sub_bipartite = [nodes |-> {}, edges |-> {}]
    /\ components = <<>>
    /\ sub_aggregated = <<>>
    /\ sub_overlapped = <<>>
    /\ aggregated = <<>>
    /\ overlapped = <<>>
    /\ tracks = <<>>
    /\ output = <<>>
    /\ pc = "match"

Init ==
    /\ activations \in Files
    /\ activity_threshold \in ActivityThresholds
    /\ tie_rule \in TieRulesOf(activations)
    /\ consistency_threshold \in ConsistencyThresholds(activations)
    /\ Start

\* one iteration of the inner loop, lines 160-205, in the order of the loops
MatchPair ==
    /\ pc = "match"
    /\ todo # {}
    /\ LET pr == FirstPair(todo)
       IN  /\ consistency_graph' = AddPair(consistency_graph, activations, pr[1], pr[2])
           /\ todo' = todo \ {pr}
    /\ UNCHANGED <<activations, activity_threshold, consistency_threshold, tie_rule, bipartite,
                   pending, bipartite_component, sub_bipartite, components,
                   sub_aggregated, sub_overlapped, aggregated, overlapped, tracks,
                   output, pc>>

\* lines 207-214: the bipartite clique graph and its connected components
MakeBipartite ==
    /\ pc = "match"
    /\ todo = {}
    /\ bipartite' = MakeCliqueBipartite(consistency_graph)
    /\ pending' = ConnectedComponents(bipartite'.order, bipartite'.nodes, bipartite'.edges)
    /\ pc' = "reduce"
    /\ UNCHANGED <<activations, activity_threshold, consistency_threshold, tie_rule, todo,
                   consistency_graph, bipartite_component, sub_bipartite, components,
                   sub_aggregated, sub_overlapped, aggregated, overlapped, tracks,
                   output>>

\* lines 214-259 for the next bipartite component; no component: continue
Reduce ==
    /\ pc = "reduce"
    /\ pending # <<>>
    /\ bipartite_component' = Head(pending)
    /\ sub_bipartite' = PruneAndMerge(activations, bipartite, Head(pending))
    /\ components' = SpeakerComponents(bipartite.order, sub_bipartite')
    /\ pending' = Tail(pending)
    /\ tracks' = tracks \o components'
    /\ pc' = IF Len(components') = 0 THEN "reduce" ELSE "aggregate"
    /\ UNCHANGED <<activations, activity_threshold, consistency_threshold, tie_rule, todo,
                   consistency_graph, bipartite, sub_aggregated, sub_overlapped,
                   aggregated, overlapped, output>>

\* lines 261-278
Aggregate ==
    /\ pc = "aggregate"
    /\ LET acc == Accumulate(activations, components)
       IN  /\ sub_aggregated' = acc.aggregated
           /\ sub_overlapped' = acc.overlapped
    /\ pc' = "resolve"
    /\ UNCHANGED <<activations, activity_threshold, consistency_threshold, tie_rule, todo,
                   consistency_graph, bipartite, pending, bipartite_component,
                   sub_bipartite, components, aggregated, overlapped, tracks, output>>

\* lines 280-283
WinnerTakeAll ==
    /\ pc = "resolve"
    /\ sub_aggregated' = KeepMostCentral(sub_aggregated, sub_overlapped)
    /\ sub_overlapped' = KeepMostCentral(sub_overlapped, sub_overlapped)
    /\ pc' = "filter"
    /\ UNCHANGED <<activations, activity_threshold, consistency_threshold, tie_rule, todo,
                   consistency_graph, bipartite, pending, bipartite_component,
                   sub_bipartite, components, aggregated, overlapped, tracks, output>>

\* lines 285-291
FilterAndAppend ==
    /\ pc = "filter"
    /\ LET active == ActiveColumns(sub_aggregated)
       IN  /\ aggregated' = Append(aggregated, SelectColumns(sub_aggregated, active))
           /\ overlapped' = Append(overlapped, SelectColumns(sub_overlapped, active))
    /\ pc' = "reduce"
    /\ UNCHANGED <<activations, activity_threshold, consistency_threshold, tie_rule, todo,
                   consistency_graph, bipartite, pending, bipartite_component,
                   sub_bipartite, components, sub_aggregated, sub_overlapped, tracks,
                   output>>

\* lines 293-296: np.hstack raises ValueError on an empty list of arrays
Stack ==
    /\ pc = "reduce"
    /\ pending = <<>>
    /\ IF aggregated = <<>>
       THEN /\ pc' = "error"
            /\ output' = output
       ELSE /\ pc' = "done"
            /\ output' = Quotient(HStack(aggregated), HStack(overlapped))
    /\ UNCHANGED <<activations, activity_threshold, consistency_threshold, tie_rule, todo,
                   consistency_graph, bipartite, pending, bipartite_component,
                   sub_bipartite, components, sub_aggregated, sub_overlapped,
                   aggregated, overlapped, tracks>>

Next ==
    \/ MatchPair
    \/ MakeBipartite
    \/ Reduce
    \/ Aggregate
    \/ WinnerTakeAll
    \/ FilterAndAppend
    \/ Stack

Spec == Init /\ [][Next]_vars

\* --------------------------------------- pairs matched in any order

\* one (past_chunk, current_chunk) pair, whichever comes
MatchAnyPair ==
    /\ pc = "match"
    /\ \E pr \in todo :
         /\ consistency_graph' = AddPair(consistency_graph, activations, pr[1], pr[2])
         /\ todo' = todo \ {pr}
    /\ UNCHANGED <<activations, activity_threshold, consistency_threshold, tie_rule, bipartite,
                   pending, bipartite_component, sub_bipartite, components,
                   sub_aggregated, sub_overlapped, aggregated, overlapped, tracks,
                   output, pc>>

\* files short enough for every order of their pairs to be tried
ShortFiles ==
    UNION {[0..(n - 1) -> ChunkPatterns(F)] : n \in 1..(MaxChunks - 2), F \in Durations}

InitAnyOrder ==
    /\ activations \in ShortFiles
    /\ activity_threshold \in ActivityThresholds
    /\ tie_rule \in TieRulesOf(activations)
    /\ consistency_threshold \in ConsistencyThresholds(activations)
    /\ Start

\* the loop of lines 158-205 alone, up to the graph it hands to line 208
NextAnyOrder ==
    \/ MatchAnyPair
    \/ MakeBipartite

SpecAnyOrder == InitAnyOrder /\ [][NextAnyOrder]_vars

\* ------------------------------------------------------------ the claims

L == NumOverlappingChunks(activations)

\* the pairs of the lookback window the loop has been through
Visited ==
    {pr \in Chunks(activations) \X Chunks(activations) :
        pr[1] < pr[2] /\ pr[1] >= pr[2] - L /\ pr \notin todo}

PeakAbove(c, s, p1, p2) ==
    \E f \in Max2(p1, p2)..(Min2(p1, p2) + Duration(activations) - 1) :
        activations[c][s][f - c] > activity_threshold

MatchCost(m) == SumSeq([i \in 1..NumSlots |-> m.cost[i - 1][m.permutation[i - 1]]])

\* C1: an edge (p,s)-(c,t) is in the graph if and only if the pair (p,c) of
\* the lookback window has been matched, t is the slot matched to s, both
\* slots peak strictly above activity_threshold within the intersection and
\* the cost of the whole match is strictly below consistency_threshold.
C1_EdgeIffActiveAndConsistent ==
    pc = "match" =>
        LET window == L
        IN  \A p \in Chunks(activations), c \in Chunks(activations) :
                IF p < c /\ p >= c - window /\ <<p, c>> \notin todo
                THEN LET m == Permutate(activations, p, c)
                         cost == MatchCost(m)
                     IN  \A s \in Slots, t \in Slots :
                            {<<p, s>>, <<c, t>>} \in consistency_graph.edges <=>
                                /\ t = m.permutation[s]
                                /\ PeakAbove(p, s, p, c)
                                /\ PeakAbove(c, t, p, c)
                                /\ cost < consistency_threshold
                ELSE p <= c =>
                        \A s \in Slots, t \in Slots :
                            {<<p, s>>, <<c, t>>} \notin consistency_graph.edges

\* a matched pair whose cost equals the threshold, both slots active, no
\* edge, beside a pair that did get an edge
C1_Witness ==
    /\ pc = "match"
    /\ consistency_graph.edges # {}
    /\ \E pr \in Visited : \E s \in Slots :
        LET m == Permutate(activations, pr[1], pr[2])
        IN  /\ MatchCost(m) = consistency_threshold
            /\ PeakAbove(pr[1], s, pr[1], pr[2])
            /\ PeakAbove(pr[2], m.permutation[s], pr[1], pr[2])
            /\ {<<pr[1], s>>, <<pr[2], m.permutation[s]>>} \notin consistency_graph.edges

\* C2: a single-chunk file, or any file no component of which yields a
\* track, ends with an explicit result and never in an error.
C2_DegenerateInputNoCrash ==
    (NumChunks(activations) = 1 \/ tracks = <<>>) => pc # "error"

\* C3: every cell of the output whose final overlap count is zero is 0.0,
\* and no cell of the output is not-a-number.
C3_ZeroCountIsZero ==
    pc = "done" =>
        \A k \in 1..Len(output), f \in Rows(activations) :
            /\ OutputAt(output[k], f).kind = "number"
            /\ At(HStack(overlapped)[k], f) = 0 => OutputAt(output[k], f).num = 0

Finished == pc \in {"done", "error"}

\* the slots of chunk c that peak above activity_threshold where chunks p1 and p2 meet
ActiveSlots(c, p1, p2) == {s \in Slots : PeakAbove(c, s, p1, p2)}

\* every two neighbouring chunks consistent and one speaker, the only one
\* active, throughout: one active slot on each side of every intersection,
\* the one matched to the other, and the same slot of a chunk on both of its
\* intersections
OneSpeakerThroughout ==
    \A c \in Chunks(activations) \ {0} :
        LET m == Permutate(activations, c - 1, c)
            past == ActiveSlots(c - 1, c - 1, c)
            current == ActiveSlots(c, c - 1, c)
        IN  /\ Cardinality(past) = 1
            /\ Cardinality(current) = 1
            /\ \A s \in past : m.permutation[s] \in current
            /\ MatchCost(m) < consistency_threshold
            /\ (c + 1) \in Chunks(activations) => ActiveSlots(c, c, c + 1) = current

\* that speaker's node of every chunk
SpeakerNodes ==
    {<<c, s>> : c \in Chunks(activations), s \in Slots} \cap
    UNION {{<<c - 1, s>> : s \in ActiveSlots(c - 1, c - 1, c)} \cup
           {<<c, s>> : s \in ActiveSlots(c, c - 1, c)} : c \in Chunks(activations) \ {0}}

\* C5: with one overlapping chunk, every two neighbouring chunks consistent
\* and one speaker, the only one, active in every intersection, there is
\* exactly one track, and it holds that speaker's node of every chunk.
C5_TrackContinuity ==
    (Finished /\ L = 1 /\ NumChunks(activations) >= 2 /\ OneSpeakerThroughout) =>
        /\ Len(tracks) = 1
        /\ tracks[1] = SpeakerNodes
        /\ \A c \in Chunks(activations) : \E s \in Slots : <<c, s>> \in tracks[1]

\* three chunks, one speaker throughout, whose slot changes between chunks
C5_Witness ==
    /\ Finished
    /\ L = 1
    /\ NumChunks(activations) = 3
    /\ OneSpeakerThroughout
    /\ \E c \in Chunks(activations), s \in Slots :
         <<c, s>> \in SpeakerNodes /\ <<c + 1, s>> \notin SpeakerNodes /\ (c + 1) \in Chunks(activations)
    /\ Len(tracks) = 1

\* the (chunk, speaker) nodes of the bipartite component of the current iteration
Members == {SpeakerOf(n) : n \in {m \in bipartite_component : is_speaker(m)}}

\* the maximal cliques of the consistency graph among them
MemberCliques == {K \in MaximalCliques(consistency_graph) : K \subseteq Members}

InSomeTrack(n) == \E k \in 1..Len(components) : n \in components[k]

\* C6: of the cliques of the component just reduced, those of fewer than
\* L + 1 members are removed and those of L + 1 members are kept; a node is
\* in a track if and only if it is in a clique of at least L + 1 members.
C6_CompletenessPruning ==
    bipartite_component # {} =>
        LET cliques == MemberCliques
            window == L
        IN  /\ \A K \in cliques :
                 /\ Cardinality(K) < window + 1 => CliqueNode(K) \notin sub_bipartite.nodes
                 /\ Cardinality(K) = window + 1 => CliqueNode(K) \in sub_bipartite.nodes
            /\ \A n \in Members :
                 InSomeTrack(n) <=> \E K \in cliques : n \in K /\ Cardinality(K) >= window + 1

\* a component with a clique of exactly L >= 2 members, one of L + 1 members
\* and an orphan
C6_Witness ==
    /\ bipartite_component # {}
    /\ L >= 2
    /\ \E K \in MemberCliques : Cardinality(K) = L
    /\ \E K \in MemberCliques : Cardinality(K) = L + 1
    /\ \E n \in Members : ~InSomeTrack(n)
    /\ \E n \in Members : InSomeTrack(n)

CompleteCliques == {K \in MemberCliques : Cardinality(K) = L + 1}

\* pairs of complete cliques that share exactly L nodes
WindowLinks ==
    {e \in {{X, Y} : X \in CompleteCliques, Y \in CompleteCliques} :
        \E X \in e, Y \in e : X # Y /\ Cardinality(X \cap Y) = L}

\* C7: two complete cliques are in one track only when a chain of complete
\* cliques links them in which each two consecutive ones share exactly L nodes.
C7_MergeOnlyOnSharedWindow ==
    bipartite_component # {} =>
        \A A \in CompleteCliques, B \in CompleteCliques :
            (\E k \in 1..Len(components) : A \cup B \subseteq components[k]) =>
                B \in Reach({A}, WindowLinks)

\* the file with the slots of chunk c reordered: slot s becomes slot pi[s]
ScrambleChunk(acts, c, pi) ==
    [d \in DOMAIN acts |->
        IF d = c THEN [t \in Slots |-> acts[d][CHOOSE s \in Slots : pi[s] = t]]
        ELSE acts[d]]

\* the same columns, in any order
SameColumns(a, b) ==
    /\ Len(a) = Len(b)
    /\ \A x \in Range(a) \cup Range(b) :
         Cardinality({k \in 1..Len(a) : a[k] = x}) = Cardinality({k \in 1..Len(b) : b[k] = x})

\* C8: reordering the slots of any chunk leaves the set of output columns
\* as it was.
C8_SlotOrderInvariance ==
    pc = "done" =>
        \A c \in Chunks(activations), pi \in Perms :
            LET scrambled == Apply(ScrambleChunk(activations, c, pi))
            IN  /\ scrambled.status = "done"
                /\ SameColumns(output, scrambled.activations)

\* C9: once every pair has been matched, in whatever order, the graph has
\* the nodes and the edges the loops of lines 158-205 give in their order.
C9_OrderIndependentGraph ==
    todo = {} =>
        /\ NodeSet(consistency_graph) = NodeSet(BuildGraph(activations))
        /\ consistency_graph.edges = BuildGraph(activations).edges

\* every pair matched, in an order that inserted the nodes differently
C9_Witness ==
    /\ todo = {}
    /\ pc = "match"
    /\ consistency_graph.edges # {}
    /\ consistency_graph.nodes # BuildGraph(activations).nodes

CoveringChunks(f) == {c \in Chunks(activations) : Covers(activations, c, f)}

\* C10: a maximal clique has at most L + 1 members, of distinct chunks; a
\* track holds at most one node of a chunk; an accumulated overlap count is
\* at most the number of chunks that cover the frame.
C10_OneNodePerChunk ==
    /\ \A K \in MaximalCliques(consistency_graph) :
         /\ Cardinality(K) <= L + 1
         /\ \A u \in K, v \in K : u[1] = v[1] => u = v
    /\ \A k \in 1..Len(tracks) : \A u \in tracks[k], v \in tracks[k] : u[1] = v[1] => u = v
    /\ pc = "resolve" =>
         \A k \in 1..Len(sub_overlapped), f \in Rows(activations) :
             At(sub_overlapped[k], f) <= Cardinality(CoveringChunks(f))

\* L >= 2, a track through a chunk with two nodes in the graph, and a frame
\* every covering chunk of which is in the track
C10_Witness ==
    /\ pc = "resolve"
    /\ L >= 2
    /\ \E K \in MaximalCliques(consistency_graph) : Cardinality(K) = L + 1
    /\ \E k \in 1..Len(components) :
         /\ \E u \in components[k] : \E s \in Slots : s # u[2] /\ <<u[1], s>> \in NodeSet(consistency_graph)
         /\ \E f \in WrittenRows(activations) :
              /\ Cardinality(CoveringChunks(f)) >= 2
              /\ sub_overlapped[k][f] = Cardinality(CoveringChunks(f))

====
